---- MODULE Spec2Model ----
(***************************************************************************)
(* Model of the MitraVerify fusion engine                                  *)
(* (src/MitraVerify-Backend/src/core/fusion_engine.py).                    *)
(*                                                                         *)
(* Confidences are integers in hundredths (0.7 is 70, 1.0 is 100).  The    *)
(* three collaborators (text analyzer, evidence retriever, image analyzer) *)
(* are black boxes: a request carries, next to its arguments, what each    *)
(* collaborator does when it is called for that request (returns a value   *)
(* or raises).  Python's None is the empty sequence <<>> and a present     *)
(* value x is <<x>>.                                                       *)
(*                                                                         *)
(* Left out: processing_time (wall-clock), the coercion of array-like      *)
(* confidences to their first element, and signals without a "confidence"  *)
(* key (every signal here carries a scalar confidence).  A rationale       *)
(* sentence is a record of its wording and the values it prints; the       *)
(* explanation string is the sequence of its sentences.                    *)
(*                                                                         *)
(* Specifications: Spec (analyze_content and batch_analyze), SpecFuse      *)
(* (_fuse_results called directly), SpecText (the text analyzer's          *)
(* _enhance_prediction), SpecStores (the image-hash registry and the       *)
(* evidence list under sequential calls), SpecImageOnly (the engine with   *)
(* the image analyzer as its producer) and SpecConcurrent (analyze_image   *)
(* called from two threads).                                               *)
(***************************************************************************)
EXTENDS Integers, Sequences, FiniteSets, TLC

VARIABLES
    pc,               \* position inside analyze_content
    req,              \* the request being processed (arguments + collaborators' behaviour)
    results,          \* the results dict of analyze_content
    overall_verdict,  \* local of _fuse_results
    confidence,       \* local of _fuse_results
    explanations,     \* local of _fuse_results
    raised,           \* the exception in flight, <<>> if none
    calls,            \* collaborators invoked during the current call, in order
    bpc,              \* position inside batch_analyze ("none": no batch is running)
    contents,         \* argument of batch_analyze
    idx,              \* loop index of batch_analyze (1-based)
    bresults,         \* the results list of batch_analyze
    threw,            \* per batch position: did processing the request raise
    tin,              \* TextAnalyzer: the text being analyzed (its features), None if none
    tsignal,          \* TextAnalyzer: the signal analyze_text returned, None before
    known_hashes,     \* ImageAnalyzer.known_hashes: set of <<hash, filename>> entries
    hash_file,        \* image_hashes.txt: its lines, in order
    image_log,        \* the analyze_image calls made so far, with their results
    evidence_data,    \* EvidenceRetriever.evidence_data
    callers,          \* per concurrent caller of analyze_image: where it is in its call
    serialized        \* does the host run analyze_image calls one at a time

vars == <<pc, req, results, overall_verdict, confidence, explanations, raised,
          calls, bpc, contents, idx, bresults, threw,
          tin, tsignal, known_hashes, hash_file, image_log, evidence_data,
          callers, serialized>>

callVars == <<pc, results, overall_verdict, confidence, explanations, raised, calls>>
batchVars == <<bpc, contents, idx, bresults, threw>>
textVars == <<tin, tsignal>>
concVars == <<callers, serialized>>
storeVars == <<known_hashes, hash_file, image_log, evidence_data, concVars>>
engineVars == <<req, callVars, batchVars>>

----------------------------------------------------------------------------
(* Bounds and input domains *)

MaxBatch == 3

Min(a, b) == IF a < b THEN a ELSE b
Max(a, b) == IF a > b THEN a ELSE b

None == <<>>
Some(x) == <<x>>

\* Python truthiness of an optional string argument: None and "" are falsy.
Truthy(opt) == opt # None /\ opt[1] # ""

\* Confidence values a signal may carry; the engine does not validate them,
\* so values outside [0, 100] are included.
ConfValues == {-20, 30, 60, 80, 130}

TextLabels == {"reliable", "misinformation", "error", "None", "satire"}

ImageVerdicts == {"authentic", "potentially_manipulated", "error", "<missing>"}

\* "", a 10 character explanation, and a longer one.
TextExplanations == {"", "Too short.", "Moderate confidence detection of potential misinformation."}

TextSignals == [prediction : TextLabels, confidence : ConfValues, explanation : TextExplanations]

ImageSignals == [verdict : ImageVerdicts, confidence : ConfValues]

EvidenceItems == [verdict : {"true", "false"}, similarity : {40, 90}]

\* the top_k the engine passes to the retriever
TopK == 2

\* Evidence lists as the retriever ranks them: similarity descending.
EvidenceLists ==
    { e \in UNION { [1..n -> EvidenceItems] : n \in 0..TopK } :
        \A i \in 1..Len(e) - 1 : e[i].similarity >= e[i + 1].similarity }

Unused == [status |-> "unused", value |-> None, msg |-> ""]
Raises(m) == [status |-> "raise", value |-> None, msg |-> m]
Returns(v) == [status |-> "return", value |-> v, msg |-> ""]

TextOutcomes == {Raises("analyze_text failed")} \cup { Returns(Some(s)) : s \in TextSignals }
EvidenceOutcomes == {Raises("retrieve_evidence failed")} \cup { Returns(e) : e \in EvidenceLists }
ImageOutcomes == {Raises("analyze_image failed")} \cup { Returns(Some(s)) : s \in ImageSignals }

TextArgs == {None, Some(""), Some("claim")}
ImageArgs == {None, Some("img.jpg")}


\* A request whose collaborators are scripted exactly for the calls the engine
\* makes: text analysis when text is truthy, retrieval when that returned a
\* signal whose prediction is not "error", image analysis when an image is
\* given and the text analysis did not raise.
WellFormed(r) ==
    LET textCalled == Truthy(r.text)
        textReturned == textCalled /\ r.text_out.status = "return"
        evCalled == textReturned /\ r.text_out.value[1].prediction # "error"
        imgCalled == Truthy(r.image_path) /\ ~(textCalled /\ r.text_out.status = "raise")
    IN  /\ (r.text_out = Unused) <=> ~textCalled
        /\ (r.evidence_out = Unused) <=> ~evCalled
        /\ (r.image_out = Unused) <=> ~imgCalled

Requests ==
    { r \in [kw : {"ok"}, text : TextArgs, image_path : ImageArgs,
             text_out : TextOutcomes \cup {Unused},
             evidence_out : EvidenceOutcomes \cup {Unused},
             image_out : ImageOutcomes \cup {Unused}] : WellFormed(r) }

----------------------------------------------------------------------------
(* analyze_content, step by step.  A frame is the state of one call. *)

InitialResults ==
    [overall_verdict |-> "unknown", confidence |-> 0, text_analysis |-> None,
     image_analysis |-> None, evidence |-> <<>>, explanation |-> <<>>, error |-> None]

\* The frame on entry; the locals of _fuse_results are not bound yet.
Entry ==
    [pc |-> "text", results |-> InitialResults, overall_verdict |-> "<unbound>",
     confidence |-> 0, explanations |-> <<>>, raised |-> None, calls |-> <<>>]

Idle == [Entry EXCEPT !.pc = "idle"]

Frame ==
    [pc |-> pc, results |-> results, overall_verdict |-> overall_verdict,
     confidence |-> confidence, explanations |-> explanations, raised |-> raised,
     calls |-> calls]

SetFrame(f) ==
    /\ pc' = f.pc
    /\ results' = f.results
    /\ overall_verdict' = f.overall_verdict
    /\ confidence' = f.confidence
    /\ explanations' = f.explanations
    /\ raised' = f.raised
    /\ calls' = f.calls

Invoke(f, fn, arg) == Append(f.calls, [fn |-> fn, arg |-> arg])

Throw(f, m) == [f EXCEPT !.pc = "except", !.raised = Some(m)]

ShouldRetrieveAlways(text_result) == TRUE

\* if text_result.get("prediction") != "error"
ShouldRetrieve(text_result) == text_result[1].prediction # "error"

\* if text: text_result = analyze_text(text); results["text_analysis"] = text_result
AnalyzeTextStep(r, f) ==
    IF ~Truthy(r.text) THEN [f EXCEPT !.pc = "image"]
    ELSE LET g == [f EXCEPT !.calls = Invoke(f, "analyze_text", r.text)] IN
         IF r.text_out.status = "raise" THEN Throw(g, r.text_out.msg)
         ELSE [g EXCEPT !.results.text_analysis = r.text_out.value,
                        !.pc = IF ShouldRetrieve(r.text_out.value)
                               THEN "evidence" ELSE "image"]

RetrieveEvidenceStepPropagates(r, f) ==
    LET g == [f EXCEPT !.calls = Invoke(f, "retrieve_evidence", r.text), !.pc = "image"] IN
    IF r.evidence_out.status = "raise" THEN Throw(g, r.evidence_out.msg)
    ELSE [g EXCEPT !.results.evidence = r.evidence_out.value]

\* try: evidence = retrieve_evidence(text, top_k=2) except: results["evidence"] = []
RetrieveEvidenceStep(r, f) ==
    LET g == [f EXCEPT !.calls = Invoke(f, "retrieve_evidence", r.text), !.pc = "image"] IN
    IF r.evidence_out.status = "raise" THEN [g EXCEPT !.results.evidence = <<>>]
    ELSE [g EXCEPT !.results.evidence = r.evidence_out.value]

\* if image_path: results["image_analysis"] = analyze_image(image_path)
AnalyzeImageStep(r, f) ==
    IF ~Truthy(r.image_path) THEN [f EXCEPT !.pc = "fuse_init"]
    ELSE LET g == [f EXCEPT !.calls = Invoke(f, "analyze_image", r.image_path)] IN
         IF r.image_out.status = "raise" THEN Throw(g, r.image_out.msg)
         ELSE [g EXCEPT !.results.image_analysis = r.image_out.value, !.pc = "fuse_init"]

----------------------------------------------------------------------------
(* _fuse_results.  st is the triple of its locals. *)

\* A rationale sentence: its wording (kind), the number it prints (a
\* confidence as a percentage, or a count) and the text it quotes.
Sentence(kind, num, text) == [kind |-> kind, num |-> num, text |-> text]

FallbackExplanation ==
    << Sentence("fallback", 0, "Analysis completed but no clear indicators found") >>

InitialFusionZero == [overall_verdict |-> "unknown", confidence |-> 0, explanations |-> <<>>]

\* overall_verdict = "unknown"; confidence = 0.5; explanations = []
InitialFusion == [overall_verdict |-> "unknown", confidence |-> 50, explanations |-> <<>>]

UnusablePredictionAlsoReliable(prediction) == prediction \in {"error", "None", "reliable"}

UnusablePredictionNoneOnly(prediction) == prediction = "None"

\* not (prediction_str and prediction_str != "error" and prediction_str != "None")
UnusablePrediction(prediction) == prediction \in {"error", "None"}

\* Text analysis contribution
TextContribution(st, text_result) ==
    IF text_result = None THEN st
    ELSE LET t == text_result[1]
             text_conf == t.confidence
         IN  IF UnusablePrediction(t.prediction) THEN st
             ELSE LET label == IF t.prediction = "misinformation"
                               THEN "misinformation" ELSE "reliable"
                      first == Append(st.explanations, Sentence("text_" \o label, text_conf, ""))
                  IN  [overall_verdict |-> label,
                       confidence |-> text_conf,
                       explanations |->
                           IF Len(t.explanation) > 10
                           THEN Append(first, Sentence("details", 0, t.explanation))
                           ELSE first]

ConflictConfidenceMax(current, image_conf) == Max(current, image_conf)

\* confidence = min(confidence, image_conf)
ConflictConfidence(current, image_conf) == Min(current, image_conf)

EscalatedConfidenceMin(current, image_conf) == Min(current, image_conf)

\* confidence = max(confidence, image_conf)
EscalatedConfidence(current, image_conf) == Max(current, image_conf)

\* if image_verdict == "potentially_manipulated"
ManipulatedContribution(st, image_conf) ==
    IF st.overall_verdict = "reliable" THEN
        [overall_verdict |-> "needs_verification",
         confidence |-> ConflictConfidence(st.confidence, image_conf),
         explanations |-> Append(st.explanations,
                            Sentence("image_suggests_manipulation", image_conf, ""))]
    ELSE
        [overall_verdict |-> "misinformation",
         confidence |-> EscalatedConfidence(st.confidence, image_conf),
         explanations |-> Append(st.explanations,
                            Sentence("image_confirms_manipulation", image_conf, ""))]

AuthenticContributionOverrides(st, image_conf) ==
    IF st.overall_verdict = "reliable" THEN
        [st EXCEPT !.confidence = Max(st.confidence, image_conf),
                   !.explanations = Append(st.explanations,
                            Sentence("image_confirms_authentic", image_conf, ""))]
    ELSE
        [overall_verdict |-> "reliable",
         confidence |-> image_conf,
         explanations |-> Append(st.explanations,
                            Sentence("image_indicates_authentic", image_conf, ""))]

AuthenticContributionBoosts(st, image_conf) ==
    IF st.overall_verdict = "unknown" THEN
        [overall_verdict |-> "reliable",
         confidence |-> image_conf,
         explanations |-> Append(st.explanations,
                            Sentence("image_indicates_authentic", image_conf, ""))]
    ELSE IF st.overall_verdict = "reliable" THEN
        [st EXCEPT !.confidence = Max(st.confidence, image_conf),
                   !.explanations = Append(st.explanations,
                            Sentence("image_confirms_authentic", image_conf, ""))]
    ELSE [st EXCEPT !.confidence = Max(st.confidence, image_conf)]

AuthenticContributionKeepsInitial(st, image_conf) ==
    IF st.overall_verdict \in {"unknown", "reliable"} THEN
        [overall_verdict |-> "reliable",
         confidence |-> Max(st.confidence, image_conf),
         explanations |-> Append(st.explanations,
                            Sentence(IF st.overall_verdict = "unknown"
                                     THEN "image_indicates_authentic"
                                     ELSE "image_confirms_authentic", image_conf, ""))]
    ELSE st

\* elif image_verdict == "authentic"
AuthenticContribution(st, image_conf) ==
    IF st.overall_verdict = "unknown" THEN
        [overall_verdict |-> "reliable",
         confidence |-> image_conf,
         explanations |-> Append(st.explanations,
                            Sentence("image_indicates_authentic", image_conf, ""))]
    ELSE IF st.overall_verdict = "reliable" THEN
        [st EXCEPT !.confidence = Max(st.confidence, image_conf),
                   !.explanations = Append(st.explanations,
                            Sentence("image_confirms_authentic", image_conf, ""))]
    ELSE st

\* Image analysis contribution (the signal has a verdict)
ImageContribution(st, image_result) ==
    IF image_result = None \/ image_result[1].verdict = "error" THEN st
    ELSE LET image_verdict == image_result[1].verdict
             image_conf == image_result[1].confidence
         IN  IF image_verdict = "potentially_manipulated"
                 THEN ManipulatedContribution(st, image_conf)
             ELSE IF image_verdict = "authentic"
                 THEN AuthenticContribution(st, image_conf)
             ELSE st

FalseEvidence(evidence) == SelectSeq(evidence, LAMBDA e : e.verdict = "false")

EscalationConfidenceBySimilarity(false_evidence) == false_evidence[1].similarity

\* confidence = 0.7
EscalationConfidence(false_evidence) == 70

DowngradeConfidenceFixed(current) == 60

\* confidence = min(confidence, 0.6)
DowngradeConfidence(current) == Min(current, 60)

FoundSentenceCountsAll(evidence, false_evidence) ==
    Sentence("found_debunked", Len(evidence), "")

\* f"Found {len(false_evidence)} similar debunked claims in evidence database"
FoundSentence(evidence, false_evidence) ==
    Sentence("found_debunked", Len(false_evidence), "")

EvidenceContributionCapsAll(st, evidence) ==
    LET false_evidence == FalseEvidence(evidence) IN
    IF Len(false_evidence) > 0 THEN
        LET found == Append(st.explanations, FoundSentence(evidence, false_evidence))
        IN  IF st.overall_verdict = "unknown" THEN
                [overall_verdict |-> "likely_misinformation",
                 confidence |-> EscalationConfidence(false_evidence),
                 explanations |-> found]
            ELSE IF st.overall_verdict = "reliable" THEN
                [overall_verdict |-> "needs_verification",
                 confidence |-> DowngradeConfidence(st.confidence), explanations |-> found]
            ELSE [st EXCEPT !.confidence = DowngradeConfidence(st.confidence),
                            !.explanations = found]
    ELSE st

\* Evidence contribution
EvidenceContribution(st, evidence) ==
    LET false_evidence == FalseEvidence(evidence) IN
    IF Len(false_evidence) > 0 THEN
        LET found == Append(st.explanations, FoundSentence(evidence, false_evidence))
        IN  IF st.overall_verdict = "unknown" THEN
                [overall_verdict |-> "likely_misinformation",
                 confidence |-> EscalationConfidence(false_evidence),
                 explanations |-> found]
            ELSE IF st.overall_verdict = "reliable" THEN
                [overall_verdict |-> "needs_verification",
                 confidence |-> DowngradeConfidence(st.confidence), explanations |-> found]
            ELSE [st EXCEPT !.explanations = found]
    ELSE st

ClampNoCeiling(c) == Max(0, c)

\* confidence = max(0.0, min(1.0, float(confidence)))
Clamp(c) == Max(0, Min(100, c))

FinalExplanationJoined(expl) == expl

\* " ".join(explanations), or the fallback string
FinalExplanation(expl) == IF expl # <<>> THEN expl ELSE FallbackExplanation

Locals(f) ==
    [overall_verdict |-> f.overall_verdict, confidence |-> f.confidence,
     explanations |-> f.explanations]

SetLocals(f, st, next) ==
    [f EXCEPT !.overall_verdict = st.overall_verdict, !.confidence = st.confidence,
              !.explanations = st.explanations, !.pc = next]

FuseInitStep(f) == SetLocals(f, InitialFusion, "fuse_text")

FuseTextStep(f) ==
    SetLocals(f, TextContribution(Locals(f), f.results.text_analysis), "fuse_image")

\* image_result["verdict"] raises KeyError when the signal has no verdict
FuseImageStep(f) ==
    IF f.results.image_analysis # None /\ f.results.image_analysis[1].verdict = "<missing>"
    THEN Throw(f, "'verdict'")
    ELSE SetLocals(f, ImageContribution(Locals(f), f.results.image_analysis), "fuse_evidence")

FuseEvidenceStep(f) ==
    SetLocals(f, EvidenceContribution(Locals(f), f.results.evidence), "fuse_return")

\* the return of _fuse_results, results.update(overall_result) and return results
FuseReturnStep(f) ==
    [f EXCEPT !.confidence = Clamp(f.confidence),
              !.results.overall_verdict = f.overall_verdict,
              !.results.confidence = Clamp(f.confidence),
              !.results.explanation = FinalExplanation(f.explanations),
              !.pc = "returned"]

ExceptStepFuses(f) == [f EXCEPT !.results.error = f.raised, !.pc = "fuse_init"]

\* except Exception as e: results["error"] = str(e); return results
ExceptStep(f) == [f EXCEPT !.results.error = f.raised, !.pc = "returned"]

StepF(r, f) ==
    CASE f.pc = "text" -> AnalyzeTextStep(r, f)
      [] f.pc = "evidence" -> RetrieveEvidenceStep(r, f)
      [] f.pc = "image" -> AnalyzeImageStep(r, f)
      [] f.pc = "fuse_init" -> FuseInitStep(f)
      [] f.pc = "fuse_text" -> FuseTextStep(f)
      [] f.pc = "fuse_image" -> FuseImageStep(f)
      [] f.pc = "fuse_evidence" -> FuseEvidenceStep(f)
      [] f.pc = "fuse_return" -> FuseReturnStep(f)
      [] f.pc = "except" -> ExceptStep(f)

RECURSIVE RunF(_, _)
RunF(r, f) == IF f.pc = "returned" THEN f ELSE RunF(r, StepF(r, f))

\* What analyze_content returns for the request r.
analyze_content(r) == RunF(r, Entry).results

----------------------------------------------------------------------------
(* batch_analyze *)

NoRequest ==
    [kw |-> "ok", text |-> None, image_path |-> None,
     text_out |-> Unused, evidence_out |-> Unused, image_out |-> Unused]

\* The three keys _fuse_results computes.
Fused(res) ==
    [overall_verdict |-> res.overall_verdict, confidence |-> res.confidence,
     explanation |-> res.explanation]

\* What _fuse_results returns for the results dict res.
fuse_results(res) ==
    Fused(RunF(NoRequest, [Entry EXCEPT !.pc = "fuse_init", !.results = res]).results)

TextSignal(p, c) == [prediction |-> p, confidence |-> c, explanation |-> ""]
ImageSignal(v, c) == [verdict |-> v, confidence |-> c]

\* The requests batches are drawn from: a dict with a key that is no parameter of
\* analyze_content, a text request with debunking evidence, a request whose
\* text analysis raises, an image-only request, a request whose fusion raises,
\* and a request with both signals.
BatchContents ==
    { [NoRequest EXCEPT !.kw = "bad"],
      [NoRequest EXCEPT !.text = Some("claim"),
                        !.text_out = Returns(Some(TextSignal("reliable", 80))),
                        !.evidence_out = Returns(<< [verdict |-> "false", similarity |-> 90] >>)],
      [NoRequest EXCEPT !.text = Some("claim"), !.image_path = Some("img.jpg"),
                        !.text_out = Raises("analyze_text failed")],
      [NoRequest EXCEPT !.image_path = Some("img.jpg"),
                        !.image_out = Returns(Some(ImageSignal("authentic", 60)))],
      [NoRequest EXCEPT !.image_path = Some("img.jpg"),
                        !.image_out = Returns(Some(ImageSignal("<missing>", 60)))],
      [NoRequest EXCEPT !.text = Some("claim"), !.image_path = Some("img.jpg"),
                        !.text_out = Returns(Some(TextSignal("misinformation", 80))),
                        !.evidence_out = Raises("retrieve_evidence failed"),
                        !.image_out = Returns(Some(ImageSignal("potentially_manipulated", 80)))] }

Batches == UNION { [1..n -> BatchContents] : n \in 0..MaxBatch }

\* the entry appended when analyze_content(**content) raises
ErrorEntry(m) == [overall_verdict |-> "error", confidence |-> 0, error |-> Some(m)]

----------------------------------------------------------------------------
(* The state machine *)

\* The producers before any call: no text analysis in progress, an empty
\* image-hash registry (no image_hashes.txt yet) and no evidence loaded.
\* The threads of the host that call analyze_image on the one analyzer.
Callers == {"t1", "t2"}

\* A caller that is not inside analyze_image.
NotCalling == [pc |-> "idle", image |-> None, result |-> None]

StoresEmpty ==
    /\ callers = [c \in Callers |-> NotCalling]
    /\ serialized = TRUE
    /\ known_hashes = {}
    /\ hash_file = <<>>
    /\ image_log = <<>>
    /\ evidence_data = <<>>

ProducersIdle ==
    /\ tin = None
    /\ tsignal = None
    /\ StoresEmpty

Init ==
    /\ ProducersIdle
    /\ pc = Idle.pc
    /\ results = Idle.results
    /\ overall_verdict = Idle.overall_verdict
    /\ confidence = Idle.confidence
    /\ explanations = Idle.explanations
    /\ raised = Idle.raised
    /\ calls = Idle.calls
    /\ req = NoRequest
    /\ bpc = "none"
    /\ contents = <<>>
    /\ idx = 1
    /\ bresults = <<>>
    /\ threw = <<>>

\* A caller invokes analyze_content(text, image_path).
Call ==
    /\ bpc = "none" /\ pc = "idle"
    /\ req' \in Requests
    /\ SetFrame(Entry)
    /\ UNCHANGED batchVars
    /\ UNCHANGED <<textVars, storeVars>>

TextStep ==
    /\ pc = "text"
    /\ SetFrame(AnalyzeTextStep(req, Frame))
    /\ UNCHANGED <<req, batchVars>>
    /\ UNCHANGED <<textVars, storeVars>>

EvidenceStep ==
    /\ pc = "evidence"
    /\ SetFrame(RetrieveEvidenceStep(req, Frame))
    /\ UNCHANGED <<req, batchVars>>
    /\ UNCHANGED <<textVars, storeVars>>

ImageStep ==
    /\ pc = "image"
    /\ SetFrame(AnalyzeImageStep(req, Frame))
    /\ UNCHANGED <<req, batchVars>>
    /\ UNCHANGED <<textVars, storeVars>>

FuseInit ==
    /\ pc = "fuse_init"
    /\ SetFrame(FuseInitStep(Frame))
    /\ UNCHANGED <<req, batchVars>>
    /\ UNCHANGED <<textVars, storeVars>>

FuseText ==
    /\ pc = "fuse_text"
    /\ SetFrame(FuseTextStep(Frame))
    /\ UNCHANGED <<req, batchVars>>
    /\ UNCHANGED <<textVars, storeVars>>

FuseImage ==
    /\ pc = "fuse_image"
    /\ SetFrame(FuseImageStep(Frame))
    /\ UNCHANGED <<req, batchVars>>
    /\ UNCHANGED <<textVars, storeVars>>

FuseEvidence ==
    /\ pc = "fuse_evidence"
    /\ SetFrame(FuseEvidenceStep(Frame))
    /\ UNCHANGED <<req, batchVars>>
    /\ UNCHANGED <<textVars, storeVars>>

FuseReturn ==
    /\ pc = "fuse_return"
    /\ SetFrame(FuseReturnStep(Frame))
    /\ UNCHANGED <<req, batchVars>>
    /\ UNCHANGED <<textVars, storeVars>>

Except ==
    /\ pc = "except"
    /\ SetFrame(ExceptStep(Frame))
    /\ UNCHANGED <<req, batchVars>>
    /\ UNCHANGED <<textVars, storeVars>>

\* A caller invokes batch_analyze(contents): results = []
BatchCall ==
    /\ bpc = "none" /\ pc = "idle"
    /\ contents' \in Batches
    /\ bpc' = "loop"
    /\ idx' = 1
    /\ bresults' = <<>>
    /\ threw' = <<>>
    /\ UNCHANGED <<req, callVars>>
    /\ UNCHANGED <<textVars, storeVars>>

\* for content in contents: analyze_content(**content) with keys that are its parameters
BatchEnter ==
    /\ bpc = "loop" /\ pc = "idle"
    /\ idx <= Len(contents)
    /\ contents[idx].kw = "ok"
    /\ req' = contents[idx]
    /\ SetFrame(Entry)
    /\ UNCHANGED batchVars
    /\ UNCHANGED <<textVars, storeVars>>

\* analyze_content(**content) raises TypeError on an unexpected key; the
\* handler of batch_analyze appends the error entry
BatchTypeError ==
    /\ bpc = "loop" /\ pc = "idle"
    /\ idx <= Len(contents)
    /\ contents[idx].kw = "bad"
    /\ bresults' = Append(bresults,
                     ErrorEntry("analyze_content() got an unexpected keyword argument"))
    /\ threw' = Append(threw, TRUE)
    /\ idx' = idx + 1
    /\ UNCHANGED <<req, callVars, bpc, contents>>
    /\ UNCHANGED <<textVars, storeVars>>

\* results.append(result)
BatchAppend ==
    /\ bpc = "loop" /\ pc = "returned"
    /\ bresults' = Append(bresults, results)
    /\ threw' = Append(threw, raised # None)
    /\ idx' = idx + 1
    /\ SetFrame(Idle)
    /\ UNCHANGED <<req, bpc, contents>>
    /\ UNCHANGED <<textVars, storeVars>>

\* return results
BatchReturn ==
    /\ bpc = "loop" /\ pc = "idle"
    /\ idx > Len(contents)
    /\ bpc' = "done"
    /\ UNCHANGED <<req, callVars, contents, idx, bresults, threw>>
    /\ UNCHANGED <<textVars, storeVars>>

Next ==
    \/ Call
    \/ TextStep
    \/ EvidenceStep
    \/ ImageStep
    \/ FuseInit
    \/ FuseText
    \/ FuseImage
    \/ FuseEvidence
    \/ FuseReturn
    \/ Except
    \/ BatchCall
    \/ BatchEnter
    \/ BatchTypeError
    \/ BatchAppend
    \/ BatchReturn

Spec == Init /\ [][Next]_vars

----------------------------------------------------------------------------
(* _fuse_results called directly on a results dict (as test_fusion_mock.py does) *)

\* The dicts it is called on: any text signal or none, any image signal that has
\* a verdict or none, any evidence list.
DirectResults ==
    { [InitialResults EXCEPT !.text_analysis = t, !.image_analysis = i, !.evidence = e] :
        t \in {None} \cup { Some(x) : x \in TextSignals },
        i \in {None} \cup { Some(x) : x \in { y \in ImageSignals : y.verdict # "<missing>" } },
        e \in EvidenceLists }

InitFuse ==
    /\ ProducersIdle
    /\ pc = "fuse_init"
    /\ results \in DirectResults
    /\ overall_verdict = Entry.overall_verdict
    /\ confidence = Entry.confidence
    /\ explanations = Entry.explanations
    /\ raised = None
    /\ calls = <<>>
    /\ req = NoRequest
    /\ bpc = "none"
    /\ contents = <<>>
    /\ idx = 1
    /\ bresults = <<>>
    /\ threw = <<>>

NextFuse ==
    \/ FuseInit
    \/ FuseText
    \/ FuseImage
    \/ FuseEvidence
    \/ FuseReturn

SpecFuse == InitFuse /\ [][NextFuse]_vars

----------------------------------------------------------------------------
(* The text analyzer (src/MitraVerify-Backend/src/core/text_analyzer.py).  *)
(* A text is the sequence of its whitespace-separated words, joined by     *)
(* single spaces.  The MURIL model is a black box: an input carries the    *)
(* class it predicts and the probability of that class.                    *)

\* The engine while the producers are exercised on their own.
EngineIdle ==
    /\ pc = Idle.pc
    /\ results = Idle.results
    /\ overall_verdict = Idle.overall_verdict
    /\ confidence = Idle.confidence
    /\ explanations = Idle.explanations
    /\ raised = Idle.raised
    /\ calls = Idle.calls
    /\ req = NoRequest
    /\ bpc = "none"
    /\ contents = <<>>
    /\ idx = 1
    /\ bresults = <<>>
    /\ threw = <<>>

MaxWords == 5

Vocabulary == {"Fake!", "HOAX", "SHOCKING", "study", "research", "the"}

\* len(word)
WordLen(w) ==
    CASE w = "Fake!" -> 5 [] w = "HOAX" -> 4 [] w = "SHOCKING" -> 8
      [] w = "study" -> 5 [] w = "research" -> 8 [] w = "the" -> 3

\* sum(1 for c in word if c.isupper())
WordUpper(w) ==
    CASE w = "Fake!" -> 1 [] w = "HOAX" -> 4 [] w = "SHOCKING" -> 8
      [] OTHER -> 0

\* word.lower()
Lower(w) ==
    CASE w = "Fake!" -> "fake!" [] w = "HOAX" -> "hoax" [] w = "SHOCKING" -> "shocking"
      [] OTHER -> w

misinfo_keywords ==
    {"fake", "hoax", "conspiracy", "secret", "hidden", "exposed", "truth",
     "lie", "cover-up", "scandal", "shocking", "urgent", "warning"}

reliable_keywords ==
    {"study", "research", "evidence", "data", "analysis", "expert",
     "scientist", "doctor", "professor", "university", "official"}

\* keyword in lw, for a lower-cased word lw of the vocabulary
IsSubstring(keyword, lw) ==
    \/ keyword = "fake" /\ lw = "fake!"
    \/ keyword = lw

\* keyword in text_lower: no keyword contains whitespace, so it occurs in the
\* text exactly when it occurs in one of its words.
KeywordIn(keyword, text) ==
    \E i \in 1..Len(text) : IsSubstring(keyword, Lower(text[i]))

KeywordCount(keywords, text) ==
    Cardinality({ k \in keywords : KeywordIn(k, text) })

RECURSIVE WordsLen(_)
WordsLen(text) ==
    IF text = <<>> THEN 0 ELSE WordLen(Head(text)) + WordsLen(Tail(text))

\* len(text): the words and the single spaces between them
TextLen(text) ==
    IF text = <<>> THEN 0 ELSE WordsLen(text) + Len(text) - 1

\* sum(1 for c in text if c.isupper())
RECURSIVE UpperCount(_)
UpperCount(text) ==
    IF text = <<>> THEN 0 ELSE WordUpper(Head(text)) + UpperCount(Tail(text))

\* caps_ratio > 0.3, with caps_ratio = 0 for the empty text
ExcessiveCaps(text) ==
    TextLen(text) > 0 /\ 10 * UpperCount(text) > 3 * TextLen(text)

id2label(class) == IF class = 0 THEN "reliable" ELSE "misinformation"

AgreementBoostFlat(count) == 10

\* 0.1 + (count * 0.05)
AgreementBoost(count) == 10 + count * 5

StrongIndicatorsThree(count) == count >= 3

\* if misinfo_count >= 2 / if reliable_count >= 2: flip the prediction
StrongIndicators(count) == count >= 2

\* The keyword branch: the class after it and its confidence adjustment.
KeywordStep(predicted_class, misinfo_count, reliable_count) ==
    IF misinfo_count > reliable_count /\ misinfo_count > 0 THEN
        IF predicted_class = 1 THEN
            [class |-> 1, adjustment |-> AgreementBoost(misinfo_count)]
        ELSE IF StrongIndicators(misinfo_count) THEN
            [class |-> 1, adjustment |-> 20]
        ELSE [class |-> 0, adjustment |-> -10]
    ELSE IF reliable_count > misinfo_count /\ reliable_count > 0 THEN
        IF predicted_class = 0 THEN
            [class |-> 0, adjustment |-> AgreementBoost(reliable_count)]
        ELSE IF StrongIndicators(reliable_count) THEN
            [class |-> 0, adjustment |-> 20]
        ELSE [class |-> 1, adjustment |-> -10]
    ELSE [class |-> predicted_class, adjustment |-> 0]

\* if len(words) < 5
ShortTextAdjustment(text) == IF Len(text) < 5 THEN -10 ELSE 0

\* if caps_ratio > 0.3, on the class after the keyword branch
CapsAdjustment(text, class) ==
    IF ExcessiveCaps(text) THEN (IF class = 1 THEN 10 ELSE -5) ELSE 0

TextClampNoCeiling(c) == Max(10, c)

\* max(0.1, min(0.95, final_confidence))
TextClamp(c) == Max(10, Min(95, c))

FinalProbabilitiesOfRawClass(predicted_class, final_class, final_confidence) ==
    IF predicted_class = 1
    THEN [reliable |-> 100 - final_confidence, misinformation |-> final_confidence]
    ELSE [reliable |-> final_confidence, misinformation |-> 100 - final_confidence]

\* final_probabilities, by the class after the keyword branch
FinalProbabilities(predicted_class, final_class, final_confidence) ==
    IF final_class = 1
    THEN [reliable |-> 100 - final_confidence, misinformation |-> final_confidence]
    ELSE [reliable |-> final_confidence, misinformation |-> 100 - final_confidence]

_generate_explanation(prediction, conf) ==
    IF prediction = "misinformation" THEN
        IF conf > 80 THEN "High confidence detection of misinformation patterns in the text."
        ELSE IF conf > 60 THEN "Moderate confidence detection of potential misinformation."
        ELSE "Low confidence detection of possible misinformation patterns."
    ELSE
        IF conf > 80 THEN "High confidence that the text appears reliable."
        ELSE IF conf > 60 THEN "Moderate confidence that the text appears reliable."
        ELSE "Low confidence assessment - text may need further verification."

_enhance_predictionCapsByRawClass(text, predicted_class, raw_confidence) ==
    LET misinfo_count == KeywordCount(misinfo_keywords, text)
        reliable_count == KeywordCount(reliable_keywords, text)
        kw == KeywordStep(predicted_class, misinfo_count, reliable_count)
        confidence_adjustments ==
            kw.adjustment + ShortTextAdjustment(text) + CapsAdjustment(text, predicted_class)
        final_confidence == TextClamp(raw_confidence + confidence_adjustments)
    IN  [prediction |-> id2label(kw.class),
         confidence |-> final_confidence,
         probabilities |-> FinalProbabilities(predicted_class, kw.class, final_confidence)]

_enhance_prediction(text, predicted_class, raw_confidence) ==
    LET misinfo_count == KeywordCount(misinfo_keywords, text)
        reliable_count == KeywordCount(reliable_keywords, text)
        kw == KeywordStep(predicted_class, misinfo_count, reliable_count)
        confidence_adjustments ==
            kw.adjustment + ShortTextAdjustment(text) + CapsAdjustment(text, kw.class)
        final_confidence == TextClamp(raw_confidence + confidence_adjustments)
    IN  [prediction |-> id2label(kw.class),
         confidence |-> final_confidence,
         probabilities |-> FinalProbabilities(predicted_class, kw.class, final_confidence)]

\* analyze_text when nothing raises; in is the text and the model's output on it.
analyze_text(in) ==
    LET enhanced_result == _enhance_prediction(in.text, in.predicted_class, in.raw_confidence)
    IN  [prediction |-> enhanced_result.prediction,
         confidence |-> enhanced_result.confidence,
         probabilities |-> enhanced_result.probabilities,
         explanation |-> _generate_explanation(enhanced_result.prediction,
                                               enhanced_result.confidence),
         raw_model_output |-> [prediction |-> id2label(in.predicted_class),
                               confidence |-> in.raw_confidence]]

\* The dict of analyze_text's except handler.
TextErrorSignal == [prediction |-> "error", confidence |-> 0]

Texts == UNION { [1..n -> Vocabulary] : n \in 0..MaxWords }

\* The winning probability of a two-class softmax is at least 0.5.
RawConfidences == {50, 85, 90, 100}

TextInputs == [text : Texts, predicted_class : {0, 1}, raw_confidence : RawConfidences]

InitText ==
    /\ EngineIdle
    /\ StoresEmpty
    /\ tin \in { Some(x) : x \in TextInputs }
    /\ tsignal = None

\* analyze_text(text) returns the enhanced prediction.
AnalyzeText ==
    /\ tin # None /\ tsignal = None
    /\ tsignal' = Some(analyze_text(tin[1]))
    /\ UNCHANGED <<tin, storeVars, engineVars>>

\* analyze_text(text) when the tokenizer or the model raises.
AnalyzeTextFails ==
    /\ tin # None /\ tsignal = None
    /\ tsignal' = Some(TextErrorSignal)
    /\ UNCHANGED <<tin, storeVars, engineVars>>

NextText ==
    \/ AnalyzeText
    \/ AnalyzeTextFails

SpecText == InitText /\ [][NextText]_vars

----------------------------------------------------------------------------
(* The shared stores: the image-hash registry of the image analyzer          *)
(* (src/MitraVerify-Backend/src/core/image_analyzer.py) and the evidence     *)
(* list of the retriever (src/core/evidence_retrieval.py).  known_hashes is  *)
(* the dict as its set of items, hash_file the lines of image_hashes.txt,    *)
(* image_log the analyze_image calls made so far with what each returned.    *)

MaxCalls == 3
MaxEvidence == 2

Hashes == {"h1", "h2"}
FileNames == {"a.jpg", "b.jpg"}

\* _detect_basic_manipulation adds 0.3, 0.2 and 0.3: a score is over 0.7 only
\* when all three checks fire.
ManipulationScores == {30, 80}

\* An image that opens: the name of its file, its perceptual hash, its score.
ReadableImages == [name : FileNames, hash : Hashes, manipulation_score : ManipulationScores]

\* A path that Image.open or phash rejects.
UnreadableImages == [name : FileNames]

\* hash_str in self.known_hashes
IsReusedByName(known, image) == \E e \in known : e.filename = image.name

IsReused(known, image) == \E e \in known : e.hash = image.hash

\* self.known_hashes.get(hash_str)
DictGet(known, hash_val) ==
    IF \E e \in known : e.hash = hash_val
    THEN Some((CHOOSE e \in known : e.hash = hash_val).filename)
    ELSE None

\* self.known_hashes.get(hash_str) if is_reused else None
ReusedSource(known, image) ==
    IF IsReused(known, image) THEN DictGet(known, image.hash) ELSE None

\* self.known_hashes[hash_val] = filename
DictSet(known, hash_val, filename) ==
    { e \in known : e.hash # hash_val } \cup {[hash |-> hash_val, filename |-> filename]}

\* The dict analyze_image returns for an image that opens.
ImageResult(known, image) ==
    LET is_reused == IsReused(known, image)
        verdict == IF is_reused \/ image.manipulation_score > 70
                   THEN "potentially_manipulated" ELSE "authentic"
        conf == IF is_reused THEN 80
                ELSE IF image.manipulation_score > 70 THEN image.manipulation_score
                ELSE 60
    IN  [verdict |-> verdict,
         confidence |-> conf,
         is_reused |-> is_reused,
         reused_source |-> ReusedSource(known, image),
         manipulation_score |-> image.manipulation_score,
         hash |-> image.hash]

\* The dict of analyze_image's except handler.
ImageErrorResult == [verdict |-> "error", confidence |-> 0]

PrependEvidence(data, item) == <<item>> \o data

\* self.evidence_data.append(new_evidence)
AppendEvidence(data, item) == Append(data, item)

\* The claim and verdict a caller passes to add_evidence.
EvidenceArgs == [claim : {"c1", "c2"}, verdict : {"false"}]

\* new_evidence: the id is the position the item gets.
NewEvidence(data, args) ==
    [id |-> Len(data) + 1, claim |-> args.claim, verdict |-> args.verdict]

InitStores ==
    /\ EngineIdle
    /\ ProducersIdle

\* analyze_image(image_path) on an image that opens.  The hash is saved when it
\* is new and the append to image_hashes.txt succeeds (_save_hash logs a failed
\* write and leaves the dict alone).
AnalyzeImage ==
    /\ Len(image_log) < MaxCalls
    /\ \E image \in ReadableImages, write_ok \in BOOLEAN :
         LET result == ImageResult(known_hashes, image)
             saved == ~result.is_reused /\ write_ok
         IN  /\ hash_file' = IF saved
                             THEN Append(hash_file, [hash |-> image.hash, filename |-> image.name])
                             ELSE hash_file
             /\ known_hashes' = IF saved
                                THEN DictSet(known_hashes, image.hash, image.name)
                                ELSE known_hashes
             /\ image_log' = Append(image_log,
                                [image |-> Some(image), result |-> result, saved |-> saved])
    /\ UNCHANGED <<evidence_data, concVars, textVars, engineVars>>

\* analyze_image(image_path) on a path that does not open: the error dict.
AnalyzeImageFails ==
    /\ Len(image_log) < MaxCalls
    /\ \E image \in UnreadableImages :
         image_log' = Append(image_log,
                        [image |-> None, result |-> ImageErrorResult, saved |-> FALSE])
    /\ UNCHANGED <<known_hashes, hash_file, evidence_data, concVars, textVars, engineVars>>

\* add_evidence(claim, verdict, ...).  The append comes first: a failing
\* re-encoding or a failing write of the file leaves the list as appended.
AddEvidence ==
    /\ Len(evidence_data) < MaxEvidence
    /\ \E args \in EvidenceArgs :
         evidence_data' = AppendEvidence(evidence_data, NewEvidence(evidence_data, args))
    /\ UNCHANGED <<known_hashes, hash_file, image_log, concVars, textVars, engineVars>>

NextStores ==
    \/ AnalyzeImage
    \/ AnalyzeImageFails
    \/ AddEvidence

SpecStores == InitStores /\ [][NextStores]_vars

----------------------------------------------------------------------------
(* The engine on image-only requests, with the image analyzer of            *)
(* image_analyzer.py as its image producer and one registry for all calls.  *)
(* An entry of image_log also holds what analyze_content returned.          *)

\* analyze_content(image_path=...) for a signal that analyze_image returns.
ImageOnlyRequest(name, signal) ==
    [NoRequest EXCEPT !.image_path = Some(name), !.image_out = Returns(Some(signal))]

InitImageOnly ==
    /\ EngineIdle
    /\ ProducersIdle

\* analyze_content(image_path=p) on an image that opens: analyze_image looks the
\* hash up, saves it when it is new and the write succeeds, and the engine fuses
\* the signal.
SubmitImage ==
    /\ Len(image_log) < MaxCalls
    /\ \E image \in ReadableImages, write_ok \in BOOLEAN :
         LET signal == ImageResult(known_hashes, image)
             saved == ~signal.is_reused /\ write_ok
             r == ImageOnlyRequest(image.name, signal)
             out == RunF(r, Entry)
         IN  /\ req' = r
             /\ SetFrame(out)
             /\ hash_file' = IF saved
                             THEN Append(hash_file, [hash |-> image.hash, filename |-> image.name])
                             ELSE hash_file
             /\ known_hashes' = IF saved
                                THEN DictSet(known_hashes, image.hash, image.name)
                                ELSE known_hashes
             /\ image_log' = Append(image_log,
                                [image |-> Some(image), result |-> signal, saved |-> saved,
                                 fused |-> Fused(out.results)])
    /\ UNCHANGED <<batchVars, textVars, evidence_data, concVars>>

\* analyze_content(image_path=p) on a path that does not open: the image
\* analyzer returns its error dict and the registry is left alone.
SubmitUnreadable ==
    /\ Len(image_log) < MaxCalls
    /\ \E image \in UnreadableImages :
         LET r == ImageOnlyRequest(image.name, ImageErrorResult)
             out == RunF(r, Entry)
         IN  /\ req' = r
             /\ SetFrame(out)
             /\ image_log' = Append(image_log,
                                [image |-> None, result |-> ImageErrorResult, saved |-> FALSE,
                                 fused |-> Fused(out.results)])
    /\ UNCHANGED <<known_hashes, hash_file, batchVars, textVars, evidence_data, concVars>>

NextImageOnly ==
    \/ SubmitImage
    \/ SubmitUnreadable

SpecImageOnly == InitImageOnly /\ [][NextImageOnly]_vars

----------------------------------------------------------------------------
(* analyze_image called from several threads of one process.  A call is     *)
(* split where another thread can run in between: the membership test and   *)
(* the building of the result (lines 67-107), the append to                 *)
(* image_hashes.txt (lines 49-51), the update of the dict (line 52), the    *)
(* return.  When the host serializes the calls, a call starts only when no  *)
(* other call is in progress.                                               *)

MaxConcurrentCalls == 2

\* The calls started so far: those that returned and those in progress.
CallsStarted ==
    Len(image_log) + Cardinality({ c \in Callers : callers[c].pc # "idle" })

MayStartUnlocked(c) == TRUE

\* The host's single-writer lock, when there is one.
MayStart(c) == serialized => \A d \in Callers \ {c} : callers[d].pc = "idle"

InitConcurrent ==
    /\ EngineIdle
    /\ tin = None /\ tsignal = None
    /\ known_hashes = {} /\ hash_file = <<>> /\ image_log = <<>> /\ evidence_data = <<>>
    /\ callers = [c \in Callers |-> NotCalling]
    /\ serialized \in BOOLEAN

\* Lines 67-107: open the image, hash it, test the hash against the dict and
\* build the result.
CheckHash ==
    /\ CallsStarted < MaxConcurrentCalls
    /\ \E c \in Callers, image \in ReadableImages :
         /\ callers[c].pc = "idle"
         /\ MayStart(c)
         /\ callers' = [callers EXCEPT ![c] =
                           [pc |-> "checked", image |-> Some(image),
                            result |-> Some(ImageResult(known_hashes, image))]]
    /\ UNCHANGED <<known_hashes, hash_file, image_log, evidence_data, serialized,
                   textVars, engineVars>>

\* _save_hash, lines 49-51: the line is appended to the file.
WriteHashLine ==
    /\ \E c \in Callers :
         /\ callers[c].pc = "checked" /\ ~callers[c].result[1].is_reused
         /\ hash_file' = Append(hash_file, [hash |-> callers[c].image[1].hash,
                                            filename |-> callers[c].image[1].name])
         /\ callers' = [callers EXCEPT ![c].pc = "written"]
    /\ UNCHANGED <<known_hashes, image_log, evidence_data, serialized, textVars, engineVars>>

\* _save_hash, lines 53-54: the write raises, the dict is left alone.
WriteHashFails ==
    /\ \E c \in Callers :
         /\ callers[c].pc = "checked" /\ ~callers[c].result[1].is_reused
         /\ callers' = [callers EXCEPT ![c].pc = "unsaved"]
    /\ UNCHANGED <<known_hashes, hash_file, image_log, evidence_data, serialized,
                   textVars, engineVars>>

\* _save_hash, line 52: self.known_hashes[hash_val] = filename
SetKnownHash ==
    /\ \E c \in Callers :
         /\ callers[c].pc = "written"
         /\ known_hashes' = DictSet(known_hashes, callers[c].image[1].hash,
                                    callers[c].image[1].name)
         /\ callers' = [callers EXCEPT ![c].pc = "saved"]
    /\ UNCHANGED <<hash_file, image_log, evidence_data, serialized, textVars, engineVars>>

\* Lines 114-115: return result.
ReturnResult ==
    /\ \E c \in Callers :
         /\ \/ callers[c].pc \in {"saved", "unsaved"}
            \/ callers[c].pc = "checked" /\ callers[c].result[1].is_reused
         /\ image_log' = Append(image_log,
                            [image |-> callers[c].image, result |-> callers[c].result[1],
                             saved |-> callers[c].pc = "saved"])
         /\ callers' = [callers EXCEPT ![c] = NotCalling]
    /\ UNCHANGED <<known_hashes, hash_file, evidence_data, serialized, textVars, engineVars>>

NextConcurrent ==
    \/ CheckHash
    \/ WriteHashLine
    \/ WriteHashFails
    \/ SetKnownHash
    \/ ReturnResult

SpecConcurrent == InitConcurrent /\ [][NextConcurrent]_vars

----------------------------------------------------------------------------
(* Vocabulary of the properties *)

\* The call has returned through the normal path (no exception was caught).
ReturnedNormally == pc = "returned" /\ raised = None

\* The signals fusion worked on.
HasTextSignal(label) ==
    results.text_analysis # None /\ results.text_analysis[1].prediction = label
UsableText == results.text_analysis # None /\ results.text_analysis[1].prediction \notin {"error", "None"}
HasImageSignal(verdict) ==
    results.image_analysis # None /\ results.image_analysis[1].verdict = verdict
UsableImage == results.image_analysis # None /\ results.image_analysis[1].verdict # "error"
text_conf == results.text_analysis[1].confidence
image_conf == results.image_analysis[1].confidence

\* A confidence as the data model types it: a number in [0, 1].
ValidConf(c) == c \in 0..100

NumFalse == Len(FalseEvidence(results.evidence))

\* The calls of the current analyze_content call to the collaborator fn.
CallsTo(fn) == SelectSeq(calls, LAMBDA c : c.fn = fn)

----------------------------------------------------------------------------
(* Properties *)

\* C1: whatever the text signal, image signal and evidence list (absent and
\* error signals and out-of-range signal confidences included, and also when the
\* call ends in its exception handler), the confidence of the result that
\* analyze_content returns lies in [0.0, 1.0].
C1_ConfidenceClamped == pc = "returned" => results.confidence \in 0..100

\* C1 witness: a call returned whose fusion worked with a confidence above 1.0.
C1_Witness ==
    /\ ReturnedNormally
    /\ HasTextSignal("misinformation") /\ text_conf > 100
    /\ results.overall_verdict = "misinformation"
    /\ results.confidence = 100

\* C2: within one fusion pass, once the local overall_verdict is misinformation
\* (after the text step or the image step) every later step of the pass leaves it
\* misinformation, and the pass returns misinformation, for an image signal that
\* is authentic, potentially_manipulated, error or absent and any evidence list.
C2_MisinformationSticks ==
    [][ ( /\ pc \in {"fuse_image", "fuse_evidence", "fuse_return"}
          /\ overall_verdict = "misinformation"
          /\ ~HasImageSignal("<missing>") )
        => ( /\ overall_verdict' = "misinformation"
             /\ pc' = "returned" => results'.overall_verdict = "misinformation" ) ]_vars

\* C2 witness: a pass that had misinformation from the text, then saw an authentic
\* image and debunking evidence, has returned.
C2_Witness ==
    /\ ReturnedNormally
    /\ HasTextSignal("misinformation") /\ HasImageSignal("authentic")
    /\ NumFalse > 0
    /\ results.overall_verdict = "misinformation"

\* C3: text signal reliable with confidence text_conf, image signal
\* potentially_manipulated with confidence image_conf (both confidences in
\* [0, 1]): for every evidence list the fused verdict is needs_verification and
\* the fused confidence is min(text_conf, image_conf).
C3_AsymmetricOverride ==
    ( /\ ReturnedNormally
      /\ HasTextSignal("reliable") /\ HasImageSignal("potentially_manipulated")
      /\ ValidConf(text_conf) /\ ValidConf(image_conf) )
    => ( /\ results.overall_verdict = "needs_verification"
         /\ results.confidence = Min(text_conf, image_conf) )

\* C3 witness: such a call returned, the image being the less confident signal
\* and the evidence holding a debunked claim.
C3_Witness ==
    /\ ReturnedNormally
    /\ HasTextSignal("reliable") /\ HasImageSignal("potentially_manipulated")
    /\ text_conf = 80 /\ image_conf = 30
    /\ NumFalse > 0
    /\ results.confidence = 30

\* C4: image signal potentially_manipulated and the verdict before the image step
\* not reliable (text misinformation, or no usable text signal): the fused verdict
\* is misinformation and the fused confidence is max(current, image_conf), where
\* current is text_conf for a misinformation text signal and 0.5 when there is no
\* usable text signal (confidences in [0, 1]).
C4_ManipulationEscalates ==
    ( /\ ReturnedNormally
      /\ HasImageSignal("potentially_manipulated") /\ ValidConf(image_conf)
      /\ \/ HasTextSignal("misinformation") /\ ValidConf(text_conf)
         \/ ~UsableText )
    => ( /\ results.overall_verdict = "misinformation"
         /\ results.confidence =
                Max(IF UsableText THEN text_conf ELSE 50, image_conf) )

\* C4 witness: no usable text signal and a manipulated image less confident than
\* the initial 0.5.
C4_Witness ==
    /\ ReturnedNormally
    /\ ~UsableText
    /\ HasImageSignal("potentially_manipulated") /\ image_conf = 30
    /\ results.confidence = 50

\* C5: with no text, no image and (hence) an empty evidence list, analyze_content
\* returns overall_verdict unknown, confidence 0.5 and the fallback explanation.
C5_NoSignalBaseline ==
    (pc = "returned" /\ ~Truthy(req.text) /\ ~Truthy(req.image_path))
    => ( /\ results.evidence = <<>>
         /\ results.overall_verdict = "unknown"
         /\ results.confidence = 50
         /\ results.explanation = FallbackExplanation )

\* C5 witness: analyze_content() without arguments has returned.
C5_Witness ==
    /\ pc = "returned" /\ req.text = None /\ req.image_path = None
    /\ calls = <<>>

\* C6: no usable text signal, no usable image signal, and an evidence list with at
\* least one item whose verdict is "false": the fused verdict is
\* likely_misinformation and the fused confidence is exactly 0.7, whatever the
\* number of false items and their similarity scores.
C6_EvidenceEscalation ==
    (ReturnedNormally /\ ~UsableText /\ ~UsableImage /\ NumFalse > 0)
    => ( /\ results.overall_verdict = "likely_misinformation"
         /\ results.confidence = 70 )

\* C6 witness: such a call returned, with two false items of different similarity.
C6_Witness ==
    /\ ReturnedNormally /\ ~UsableText /\ ~UsableImage
    /\ NumFalse = 2
    /\ results.evidence[1].similarity # results.evidence[2].similarity
    /\ results.overall_verdict = "likely_misinformation"

\* C7: batch_analyze on n requests returns n results in request order; at every
\* position whose request raised while it was processed the result has
\* overall_verdict error and confidence 0.0, and every other result is what
\* analyze_content returns for that request alone.
C7_BatchIsolation ==
    bpc = "done" =>
        /\ Len(bresults) = Len(contents)
        /\ \A i \in 1..Len(contents) :
              IF threw[i]
              THEN bresults[i].overall_verdict = "error" /\ bresults[i].confidence = 0
              ELSE bresults[i] = analyze_content(contents[i])

\* C8: when an exception escapes a producer call or _fuse_results,
\* analyze_content returns (does not raise) a result whose overall_verdict is
\* error and which embeds the raised message.
C8_EngineErrorVerdict ==
    (pc = "returned" /\ raised # None)
    => (results.overall_verdict = "error" /\ results.error = raised)

\* C9: during one analyze_content call the evidence retriever is invoked if and
\* only if text was supplied (non-empty) and the text producer returned a signal
\* whose label is not error; it is invoked at most once, with the raw text.
C9_RetrieverInvocation ==
    pc = "returned" =>
        /\ Len(CallsTo("retrieve_evidence")) <= 1
        /\ Len(CallsTo("retrieve_evidence")) = 1
             <=> ( /\ Truthy(req.text)
                   /\ results.text_analysis # None
                   /\ results.text_analysis[1].prediction # "error" )
        /\ \A i \in 1..Len(calls) :
              calls[i].fn = "retrieve_evidence" => calls[i].arg = req.text

\* C9 witness: a call with text returned after retrieving evidence for it.
C9_Witness ==
    /\ pc = "returned"
    /\ HasTextSignal("reliable")
    /\ CallsTo("retrieve_evidence") = << [fn |-> "retrieve_evidence", arg |-> Some("claim")] >>

\* C10: if the evidence retriever raises, the request still completes: the
\* evidence list of the result is empty, overall_verdict, confidence and
\* explanation are those of the same request with a retriever that returns an
\* empty list, and the image producer is still invoked when an image was given.
C10_RetrieverFailureTolerated ==
    (pc = "returned" /\ req.evidence_out.status = "raise")
    => LET same == analyze_content([req EXCEPT !.evidence_out = Returns(<<>>)])
       IN  /\ results.evidence = <<>>
           /\ results.overall_verdict = same.overall_verdict
           /\ results.confidence = same.confidence
           /\ results.explanation = same.explanation
           /\ Truthy(req.image_path) => Len(CallsTo("analyze_image")) = 1

\* C10 witness: a call whose retriever raised returned a fused verdict, the image
\* producer having been invoked after the failure.
C10_Witness ==
    /\ ReturnedNormally
    /\ req.evidence_out.status = "raise"
    /\ Len(CallsTo("analyze_image")) = 1
    /\ results.overall_verdict = "needs_verification"

\* C11: in fusion a producer failure is the modality being absent: for every
\* image signal and evidence list, a text signal whose label is error gives the
\* overall_verdict, confidence and explanation that no text signal gives, and for
\* every text signal and evidence list an image signal whose verdict is error
\* gives what no image signal gives.
C11_ErrorIsAbsent ==
    pc = "returned" =>
        /\ HasTextSignal("error")
             => Fused(results) = fuse_results([results EXCEPT !.text_analysis = None])
        /\ HasImageSignal("error")
             => Fused(results) = fuse_results([results EXCEPT !.image_analysis = None])

\* C11 witness: a pass over an error text signal (carrying a confidence and an
\* explanation) and debunking evidence returned the evidence-only verdict.
C11_Witness ==
    /\ pc = "returned"
    /\ HasTextSignal("error") /\ text_conf = 80
    /\ Len(results.text_analysis[1].explanation) > 10
    /\ NumFalse > 0
    /\ results.overall_verdict = "likely_misinformation"

\* C19: when the verdict before the image step is misinformation (from the text),
\* an authentic image signal changes nothing: overall_verdict, confidence and the
\* rationale sentences are those of the same request without the image, whatever
\* the image confidence.
C19_AuthenticCannotOverride ==
    (ReturnedNormally /\ HasTextSignal("misinformation") /\ HasImageSignal("authentic"))
    => Fused(results) =
           Fused(analyze_content([req EXCEPT !.image_path = None, !.image_out = Unused]))

\* C19 witness: a misinformation text signal and an authentic image more confident
\* than the text returned the text's verdict and confidence.
C19_Witness ==
    /\ ReturnedNormally
    /\ HasTextSignal("misinformation") /\ HasImageSignal("authentic")
    /\ text_conf = 30 /\ image_conf = 80
    /\ results.overall_verdict = "misinformation" /\ results.confidence = 30

\* C20: authentic image signal and no false evidence item (confidences in
\* [0, 1]): with no usable text signal the fused verdict is reliable with
\* confidence image_conf; with a reliable text signal it is reliable with
\* confidence max(text_conf, image_conf), never below text_conf.
C20_AuthenticImage ==
    (ReturnedNormally /\ HasImageSignal("authentic") /\ ValidConf(image_conf) /\ NumFalse = 0)
    => /\ ~UsableText
            => (results.overall_verdict = "reliable" /\ results.confidence = image_conf)
       /\ (HasTextSignal("reliable") /\ ValidConf(text_conf))
            => ( /\ results.overall_verdict = "reliable"
                 /\ results.confidence = Max(text_conf, image_conf)
                 /\ results.confidence >= text_conf )

\* C20 witness: no usable text signal and an authentic image less confident than
\* the initial 0.5 returned reliable at the image's confidence.
C20_Witness ==
    /\ ReturnedNormally /\ ~UsableText
    /\ HasImageSignal("authentic") /\ image_conf = 30
    /\ results.overall_verdict = "reliable" /\ results.confidence = 30

----------------------------------------------------------------------------
(* Properties of the text analyzer (specification SpecText) *)

\* analyze_text has returned a signal other than the error signal.
Analyzed == tsignal # None /\ tsignal[1].prediction # "error"

misinfo_count == KeywordCount(misinfo_keywords, tin[1].text)
reliable_count == KeywordCount(reliable_keywords, tin[1].text)

\* C12 as stated: the confidence of every text signal returned by analyze_text,
\* the error signal included, lies in [0.10, 0.95].
C12_AnySignalInRange ==
    tsignal # None => tsignal[1].confidence \in 10..95

\* C12 (amended): the confidence of every text signal other than the error
\* signal lies in [0.10, 0.95], whatever the raw probability and whichever
\* adjustments fire; the error signal has confidence 0.0.
C12_ConfidenceRange ==
    tsignal # None =>
        IF tsignal[1].prediction = "error"
        THEN tsignal[1].confidence = 0
        ELSE tsignal[1].confidence \in 10..95

\* C12 witness: a raw probability of 1.0 with agreeing keywords and excessive
\* capitals came back at the ceiling.
C12_Witness ==
    /\ Analyzed
    /\ tin[1].raw_confidence = 100 /\ tin[1].predicted_class = 1
    /\ misinfo_count = 3 /\ ExcessiveCaps(tin[1].text)
    /\ tsignal[1].confidence = 95

\* C13: with 0 reliability keywords and a model prediction of reliable, at least 2
\* misinformation keywords make the final label misinformation; exactly 1 leaves
\* the label reliable and takes 0.1 off the confidence (next to the short-text
\* and capitals adjustments).
C13_KeywordFlip ==
    (Analyzed /\ reliable_count = 0 /\ tin[1].predicted_class = 0)
    => /\ misinfo_count >= 2 => tsignal[1].prediction = "misinformation"
       /\ misinfo_count = 1
            => /\ tsignal[1].prediction = "reliable"
               /\ tsignal[1].confidence =
                      tin[1].raw_confidence - 10
                      - (IF Len(tin[1].text) < 5 THEN 10 ELSE 0)
                      - (IF ExcessiveCaps(tin[1].text) THEN 5 ELSE 0)

\* C13 witness: a text with exactly two misinformation keywords that the model
\* called reliable came back as misinformation.
C13_Witness ==
    /\ Analyzed
    /\ misinfo_count = 2 /\ reliable_count = 0
    /\ tin[1].predicted_class = 0
    /\ tsignal[1].raw_model_output.prediction = "reliable"
    /\ tsignal[1].prediction = "misinformation"

\* C14: for the text "Fake!" the final label is misinformation, whatever the
\* model's raw prediction.
C14_FakeIsMisinformation ==
    (Analyzed /\ tin[1].text = <<"Fake!">>) => tsignal[1].prediction = "misinformation"

\* C15 as stated: at least 5 words, capitals at most 30%, exactly 2 reliability
\* keywords and 0 misinformation keywords give the label reliable and a confidence
\* of at least raw + 0.1, for every raw confidence.
C15_BoostAtLeastTenth ==
    (/\ Analyzed
     /\ Len(tin[1].text) >= 5 /\ ~ExcessiveCaps(tin[1].text)
     /\ reliable_count = 2 /\ misinfo_count = 0)
    => /\ tsignal[1].prediction = "reliable"
       /\ tsignal[1].confidence >= tin[1].raw_confidence + 10

\* C15 (amended): under the same conditions the label is reliable for either raw
\* label and the confidence is min(0.95, raw + 0.2); it is at least raw + 0.1
\* exactly when raw <= 0.85.
C15_ReliableBoost ==
    (/\ Analyzed
     /\ Len(tin[1].text) >= 5 /\ ~ExcessiveCaps(tin[1].text)
     /\ reliable_count = 2 /\ misinfo_count = 0)
    => /\ tsignal[1].prediction = "reliable"
       /\ tsignal[1].confidence = Min(95, tin[1].raw_confidence + 20)
       /\ (tsignal[1].confidence >= tin[1].raw_confidence + 10)
              <=> (tin[1].raw_confidence <= 85)

\* C15 witness: a five-word text with "study" and "research" that the model called
\* reliable at 0.5 came back reliable at 0.7.
C15_Witness ==
    /\ Analyzed
    /\ Len(tin[1].text) = 5 /\ ~ExcessiveCaps(tin[1].text)
    /\ reliable_count = 2 /\ misinfo_count = 0
    /\ tin[1].predicted_class = 0 /\ tin[1].raw_confidence = 50
    /\ tsignal[1].prediction = "reliable" /\ tsignal[1].confidence = 70

\* C16: in every non-error text signal the two probabilities sum to 1.0, the one
\* of the final label is the final confidence and the other is 1 - confidence.
C16_ProbabilitiesConsistent ==
    Analyzed =>
        LET p == tsignal[1].probabilities
            other == IF tsignal[1].prediction = "reliable"
                     THEN "misinformation" ELSE "reliable"
        IN  /\ p.reliable + p.misinformation = 100
            /\ p[tsignal[1].prediction] = tsignal[1].confidence
            /\ p[other] = 100 - tsignal[1].confidence

\* C16 witness: a flipped prediction, whose probabilities follow the final label.
C16_Witness ==
    /\ Analyzed
    /\ tsignal[1].raw_model_output.prediction = "reliable"
    /\ tsignal[1].prediction = "misinformation"
    /\ tsignal[1].confidence = 70
    /\ tsignal[1].probabilities.misinformation = 70

----------------------------------------------------------------------------
(* Properties of the shared stores (specification SpecStores) *)

\* The j-th analyze_image call was on an image that opened, with hash h.
CallOn(j, h) == image_log[j].image # None /\ image_log[j].image[1].hash = h

\* C17: once a call on an image with hash h has returned is_reused = false and
\* saved the hash, every later call on an image with hash h returns is_reused =
\* true, potentially_manipulated, confidence 0.8 and the file name of that first
\* call as reused_source; a call on a hash that no earlier call was on returns
\* is_reused = false.
C17_ReuseDetection ==
    \A h \in Hashes : \A j \in 1..Len(image_log) :
        CallOn(j, h) =>
            /\ \A i \in 1..(j - 1) :
                 (CallOn(i, h) /\ ~image_log[i].result.is_reused /\ image_log[i].saved)
                 => /\ image_log[j].result.is_reused
                    /\ image_log[j].result.verdict = "potentially_manipulated"
                    /\ image_log[j].result.confidence = 80
                    /\ image_log[j].result.reused_source = Some(image_log[i].image[1].name)
            /\ (\A i \in 1..(j - 1) : ~CallOn(i, h))
                 => ~image_log[j].result.is_reused

\* C17 witness: a.jpg was saved under h1, a call on h2 came in between, and
\* b.jpg with hash h1 and a low manipulation score was then reported as reused
\* from a.jpg.
C17_Witness ==
    /\ Len(image_log) = 3
    /\ CallOn(1, "h1") /\ image_log[1].image[1].name = "a.jpg" /\ image_log[1].saved
    /\ CallOn(2, "h2")
    /\ CallOn(3, "h1") /\ image_log[3].image[1].name = "b.jpg"
    /\ image_log[3].image[1].manipulation_score = 30
    /\ image_log[3].result.reused_source = Some("a.jpg")

IsPrefix(s, t) == Len(s) <= Len(t) /\ SubSeq(t, 1, Len(s)) = s

----------------------------------------------------------------------------
(* Properties of the evidence step of _fuse_results *)

\* What _fuse_results returns when it continues from the state after this step.
FusedAfterStep == Fused(RunF(req, Frame').results)

\* C21: when the verdict before the evidence step is reliable and the evidence
\* holds at least one false item, the step makes the verdict needs_verification
\* and the confidence min(confidence before, 0.6), and these are the fused
\* verdict and (for a confidence in [0, 1]) the fused confidence.
C21_EvidenceDowngrade ==
    [][ (pc = "fuse_evidence" /\ overall_verdict = "reliable" /\ NumFalse > 0)
        => /\ overall_verdict' = "needs_verification"
           /\ confidence' = Min(confidence, 60)
           /\ FusedAfterStep.overall_verdict = "needs_verification"
           /\ ValidConf(confidence) => FusedAfterStep.confidence = Min(confidence, 60) ]_vars

\* C21 witness: a reliable verdict at 0.3 from an authentic image alone was
\* downgraded by a false evidence item and kept its 0.3.
C21_Witness ==
    /\ pc = "returned"
    /\ ~UsableText /\ HasImageSignal("authentic") /\ image_conf = 30
    /\ NumFalse > 0
    /\ results.overall_verdict = "needs_verification" /\ results.confidence = 30

\* C22: the evidence step with N >= 1 false items leaves a misinformation or
\* needs_verification verdict and its confidence unchanged, and in every branch
\* appends exactly one "Found N similar debunked claims" sentence, which is the
\* last sentence of the fused explanation; with no false item the step changes
\* nothing and adds no sentence.
C22_EvidenceFrame ==
    [][ pc = "fuse_evidence"
        => IF NumFalse > 0
           THEN /\ explanations' =
                      Append(explanations, Sentence("found_debunked", NumFalse, ""))
                /\ FusedAfterStep.explanation[Len(FusedAfterStep.explanation)] =
                      Sentence("found_debunked", NumFalse, "")
                /\ overall_verdict \in {"misinformation", "needs_verification"}
                     => /\ overall_verdict' = overall_verdict
                        /\ confidence' = confidence
           ELSE UNCHANGED <<overall_verdict, confidence, explanations>> ]_vars

\* C22 witness: a misinformation verdict at 0.8 went through an evidence list
\* with one false and one true item and came out unchanged, with "Found 1".
C22_Witness ==
    /\ pc = "returned"
    /\ HasTextSignal("misinformation") /\ text_conf = 80 /\ ~UsableImage
    /\ Len(results.evidence) = 2 /\ NumFalse = 1
    /\ results.overall_verdict = "misinformation" /\ results.confidence = 80
    /\ results.explanation[Len(results.explanation)] = Sentence("found_debunked", 1, "")

----------------------------------------------------------------------------
(* Properties of the order of the sub-steps of analyze_content *)

\* The position of a producer in the order text, evidence, image.
Rank(fn) ==
    CASE fn = "analyze_text" -> 1 [] fn = "retrieve_evidence" -> 2 [] fn = "analyze_image" -> 3

\* The sub-step of analyze_content that invokes a producer.
StepOf(fn) ==
    CASE fn = "analyze_text" -> "text" [] fn = "retrieve_evidence" -> "evidence"
      [] fn = "analyze_image" -> "image"

\* The producers invoked so far were invoked in that order, each at most once.
InvokedInOrder ==
    \A i, j \in 1..Len(calls) : i < j => Rank(calls[i].fn) < Rank(calls[j].fn)

FusionPcs == {"fuse_init", "fuse_text", "fuse_image", "fuse_evidence", "fuse_return"}

\* C23 as stated: the sub-steps run in order and _fuse_results runs exactly once
\* in every call, so that every call returns out of _fuse_results (or out of the
\* handler of an exception raised inside it).
C23_FusionRunsInEveryCall ==
    [][ /\ InvokedInOrder'
        /\ pc' = "returned" => (pc = "fuse_return" \/ raised = Some("'verdict'")) ]_vars

\* C23 (amended): the producers are invoked in the order text, evidence, image,
\* each at most once and each after the previous one has returned; _fuse_results
\* starts only after the image step has returned, at most once, and no producer
\* is invoked once it has started; a call in which no exception is raised
\* returns out of _fuse_results, and a call in which the text or image producer
\* raises returns out of the handler without running _fuse_results.
C23_SubstepOrder ==
    [][ /\ InvokedInOrder'
        /\ pc' = "evidence" => pc = "text"
        /\ pc' = "image" => pc \in {"text", "evidence"}
        /\ Len(calls') > Len(calls) => pc = StepOf(calls'[Len(calls')].fn)
        /\ pc' = "fuse_init" => (pc = "image" /\ raised' = None)
        /\ pc \in FusionPcs => (calls' = calls /\ pc' \in (FusionPcs \ {"fuse_init"})
                                                        \cup {"returned", "except"})
        /\ pc = "except" => (pc' = "returned" /\ calls' = calls)
        /\ (pc' = "returned" /\ raised' = None) => pc = "fuse_return"
        /\ (pc' = "except" /\ pc \notin FusionPcs)
             => (pc \in {"text", "image"} /\ Len(calls') = Len(calls) + 1) ]_vars

\* C23 witness: all three producers were invoked and returned, then the call
\* returned out of _fuse_results.
C23_Witness ==
    /\ ReturnedNormally
    /\ Len(calls) = 3
    /\ calls[1].fn = "analyze_text" /\ calls[2].fn = "retrieve_evidence"
    /\ calls[3].fn = "analyze_image"
    /\ results.overall_verdict = "needs_verification"

----------------------------------------------------------------------------
(* Properties of the fused verdict *)

\* C25: through analyze_content, when the text producer returned one of the
\* labels reliable, misinformation or error (or was not called), the verdict is
\* never likely_misinformation.
C25_NoLikelyMisinformation ==
    (/\ pc = "returned"
     /\ results.text_analysis # None
          => results.text_analysis[1].prediction \in {"reliable", "misinformation", "error"})
    => results.overall_verdict # "likely_misinformation"

\* C25 witness: a reliable text signal with a retrieved false evidence item and
\* no image ended as needs_verification.
C25_Witness ==
    /\ ReturnedNormally
    /\ HasTextSignal("reliable") /\ results.image_analysis = None
    /\ Len(CallsTo("retrieve_evidence")) = 1 /\ NumFalse = 2
    /\ results.overall_verdict = "needs_verification"

\* C26: what _fuse_results returns has the fallback explanation exactly when its
\* verdict is unknown; an unknown verdict has confidence 0.5; any other verdict
\* has at least one rationale sentence.
C26_FallbackIffUnknown ==
    pc = "returned" =>
        /\ (results.explanation = FallbackExplanation) <=> (results.overall_verdict = "unknown")
        /\ results.overall_verdict = "unknown" => results.confidence = 50
        /\ results.overall_verdict # "unknown"
             => (Len(results.explanation) >= 1 /\ results.explanation = explanations)

\* C26 witness: an error text signal, an error image signal and evidence without
\* a false item gave unknown at 0.5 with the fallback explanation.
C26_Witness ==
    /\ pc = "returned"
    /\ HasTextSignal("error") /\ HasImageSignal("error")
    /\ Len(results.evidence) = 2 /\ NumFalse = 0
    /\ results.overall_verdict = "unknown" /\ results.confidence = 50
    /\ results.explanation = FallbackExplanation

\* C30 as stated: a fused verdict of needs_verification with at least one false
\* evidence item has a confidence of at most 0.6.
C30_CapWhateverTheCause ==
    (ReturnedNormally /\ results.overall_verdict = "needs_verification" /\ NumFalse > 0)
    => results.confidence <= 60

\* C30 (amended): a fused verdict of needs_verification with at least one false
\* evidence item has a confidence of at most 0.6 when the evidence step made the
\* downgrade (no manipulated image); when the image step made it, the evidence
\* step leaves the confidence at min(text_conf, image_conf), clamped to [0, 1],
\* which can exceed 0.6.
C30_CapOnlyFromEvidence ==
    (ReturnedNormally /\ results.overall_verdict = "needs_verification" /\ NumFalse > 0)
    => IF HasImageSignal("potentially_manipulated")
       THEN results.confidence = Max(0, Min(100, Min(text_conf, image_conf)))
       ELSE results.confidence <= 60

\* C30 witness: reliable text at 0.8, a manipulated image at 0.8 and a false
\* evidence item ended as needs_verification at 0.8.
C30_Witness ==
    /\ ReturnedNormally
    /\ HasTextSignal("reliable") /\ text_conf = 80
    /\ HasImageSignal("potentially_manipulated") /\ image_conf = 80
    /\ NumFalse > 0
    /\ results.overall_verdict = "needs_verification" /\ results.confidence = 80

----------------------------------------------------------------------------
(* Properties of a flipped text prediction (specification SpecText) *)

\* The keyword heuristic changed the label the model predicted.
Flipped == Analyzed /\ tsignal[1].prediction # tsignal[1].raw_model_output.prediction

\* C28: a flipped prediction has confidence clamp(raw + 0.2 + short-text and
\* capitalization adjustments, 0.10, 0.95), raw being the model's confidence in
\* the label it predicted and the capitalization adjustment that of the label
\* after the flip; so a higher raw confidence on the same text never gives a
\* lower final confidence.
C28_FlipKeepsRawConfidence ==
    Flipped =>
        LET in == tin[1]
            short == IF Len(in.text) < 5 THEN -10 ELSE 0
            caps == IF ~ExcessiveCaps(in.text) THEN 0
                    ELSE IF tsignal[1].prediction = "misinformation" THEN 10 ELSE -5
        IN  /\ tsignal[1].confidence = Max(10, Min(95, in.raw_confidence + 20 + short + caps))
            /\ \A c \in RawConfidences :
                 c >= in.raw_confidence
                 => LET other == analyze_text([in EXCEPT !.raw_confidence = c])
                    IN  /\ other.prediction = tsignal[1].prediction
                        /\ other.confidence >= tsignal[1].confidence

\* C28 witness: "study research SHOCKING" predicted misinformation at 0.5 was
\* flipped to reliable at 0.5 + 0.2 - 0.1 (short) - 0.05 (capitals, for reliable).
C28_Witness ==
    /\ Flipped
    /\ tin[1].text = <<"study", "research", "SHOCKING">>
    /\ tin[1].raw_confidence = 50
    /\ tsignal[1].prediction = "reliable" /\ tsignal[1].confidence = 55

\* C29: in every non-error text signal the reported probability of the final
\* label is at least 0.5 and at least that of the other class.
C29_LabelIsArgmax ==
    Analyzed =>
        LET p == tsignal[1].probabilities
            other == IF tsignal[1].prediction = "reliable"
                     THEN "misinformation" ELSE "reliable"
        IN  /\ p[tsignal[1].prediction] >= 50
            /\ p[tsignal[1].prediction] >= p[other]

----------------------------------------------------------------------------
(* Properties of repeated image-only requests (specification SpecImageOnly) *)

\* C27: two image-only requests with the same image (same file, same hash,
\* manipulation score at most 0.7) to the same engine get the same
\* overall_verdict and confidence.
C27_ImageOnlyIdempotent ==
    \A i, j \in 1..Len(image_log) :
        (/\ i < j
         /\ image_log[i].image # None
         /\ image_log[i].image = image_log[j].image
         /\ image_log[i].image[1].manipulation_score <= 70)
        => /\ image_log[j].fused.overall_verdict = image_log[i].fused.overall_verdict
           /\ image_log[j].fused.confidence = image_log[i].fused.confidence

----------------------------------------------------------------------------
(* Properties of concurrent analyze_image calls (specification SpecConcurrent) *)

\* The lines of image_hashes.txt for the hash h.
LinesFor(h) == SelectSeq(hash_file, LAMBDA line : line.hash = h)

\* C24: when the host runs the analyze_image calls one at a time, a hash is
\* appended to the registry file at most once; without that, the file can hold
\* one line per caller for the same hash, each caller having tested the hash
\* before the other added it.
C24_OncePerHashIfSerialized ==
    \A h \in Hashes :
        /\ serialized => Len(LinesFor(h)) <= 1
        /\ Len(LinesFor(h)) <= Cardinality(Callers)

\* C24 witness: without serialization two calls on the unseen hash h1 both
\* returned is_reused = false and both appended a line for h1.
C24_Witness ==
    /\ ~serialized
    /\ Len(image_log) = 2
    /\ \A j \in 1..2 : /\ image_log[j].image[1].hash = "h1"
                       /\ ~image_log[j].result.is_reused
                       /\ image_log[j].saved
    /\ Len(LinesFor("h1")) = 2

====
